---- MODULE Spec2Model ----
(***************************************************************************)
(* Model of terracotta's raster ingestion:                                 *)
(*   - RasterPattern.convert (scripts/click_utils.py): template -> glob    *)
(*     and regex pattern -> catalog (keys, key tuple -> path);             *)
(*   - ingest (scripts/ingest.py): rgb-key reordering, filters, schema     *)
(*     check, insert loop and cache notification.                          *)
(* Strings that the code inspects character by character are sequences of  *)
(* one-character strings.  SpecConvert runs convert on a template and a    *)
(* filesystem; Spec runs ingest on a catalog, its options and a store.     *)
(***************************************************************************)
EXTENDS Integers, Sequences, FiniteSets, TLC

VARIABLES
    \* ---- RasterPattern.convert ----
    cpc,                \* position in convert
    value,              \* the template argument (before realpath)
    fs,                 \* the files on the filesystem (canonical paths)
    ckeys,              \* keys
    glob_pattern,
    regex_pattern,
    globbed,            \* glob.glob has been called
    candidates,         \* realpath of every glob hit, in glob order
    matched_candidates, \* re.match result per candidate
    files,              \* the returned dict, as a sequence of <<key, path>>
    message,            \* text of the error raised, "" if none
    \* ---- ingest ----
    pc,                 \* position in ingest
    raster_pattern,     \* the argument: <<keys, raster_files>>
    skip_metadata, rgb_key, skip_existing, ignore_older_than,
    keys, raster_files, \* the locals of the same names
    is_file,            \* output_file.is_file()
    key_names,          \* driver.key_names
    datasets,           \* the store: sequence of <<key, path>>
    store0,             \* the store as it was found: [is_file, key_names]
    created,            \* arguments of every driver.create call
    existing,           \* snapshot returned by driver.get_datasets()
    cutoff_time,
    mtime,              \* st_mtime of each path that stat() was called on
    connected, connects,\* inside driver.connect(), number of scopes opened
    inserts,            \* log of driver.insert calls
    posts,              \* log of requests.post calls
    output              \* what was echoed / printed

cvars == <<cpc, value, fs, ckeys, glob_pattern, regex_pattern, globbed,
           candidates, matched_candidates, files, message>>
ivars == <<pc, raster_pattern, skip_metadata, rgb_key, skip_existing,
           ignore_older_than, keys, raster_files, is_file, key_names,
           datasets, store0, created, existing, cutoff_time, mtime,
           connected, connects, inserts, posts, output>>
vars == <<cvars, ivars>>

\* an Optional value: None, or Some(x)
None == <<>>
Some(x) == <<x>>
Get(o) == o[1]
\* field_name is None: literal text that no placeholder follows
NoField == <<"None">>

(***************************************************************************)
(* Bounds of the model.                                                    *)
(***************************************************************************)
MaxPieces == 3      \* pieces (placeholder or literal character) per template
MaxFiles == 2       \* files on the filesystem
MaxEntries == 2     \* entries of the catalog given to ingest

(***************************************************************************)
(* Characters.                                                             *)
(***************************************************************************)
Letters == {"a", "b", "d"}
Digits == {"0", "1", "2", "3", "4", "5", "6", "7", "8", "9"}
OctDigits == {"0", "1", "2", "3", "4", "5", "6", "7"}
BS == "\\"

\* [^\W_] : a letter or a digit
IsAlnum(c) == c \in Letters \cup Digits
\* \w : a letter, a digit or the underscore
IsWord(c) == IsAlnum(c) \/ c = "_"

DigitVal(c) ==
    CASE c = "0" -> 0 [] c = "1" -> 1 [] c = "2" -> 2 [] c = "3" -> 3
      [] c = "4" -> 4 [] c = "5" -> 5 [] c = "6" -> 6 [] c = "7" -> 7
      [] c = "8" -> 8 [] c = "9" -> 9

DigitChar(n) ==
    CASE n = 0 -> "0" [] n = 1 -> "1" [] n = 2 -> "2" [] n = 3 -> "3"
      [] n = 4 -> "4" [] n = 5 -> "5" [] n = 6 -> "6" [] n = 7 -> "7"
      [] n = 8 -> "8" [] n = 9 -> "9"

\* str(n) for n >= 0, as in the f-string f'\\{key_group_number}'
RECURSIVE IntToStr(_)
IntToStr(n) ==
    IF n < 10 THEN <<DigitChar(n)>>
    ELSE Append(IntToStr(n \div 10), DigitChar(n % 10))

\* first index i >= from with s[i] \in cs, 0 if there is none
RECURSIVE IndexOfAny(_, _, _)
IndexOfAny(s, cs, from) ==
    IF from > Len(s) THEN 0
    ELSE IF s[from] \in cs THEN from
    ELSE IndexOfAny(s, cs, from + 1)

\* list.index, 1-based; 0 if x is not in the list
RECURSIVE IndexOf(_, _, _)
IndexOf(seq, x, from) ==
    IF from > Len(seq) THEN 0
    ELSE IF seq[from] = x THEN from
    ELSE IndexOf(seq, x, from + 1)

Range(seq) == {seq[i] : i \in 1..Len(seq)}

RECURSIVE Flatten(_)
Flatten(ss) == IF ss = <<>> THEN <<>> ELSE Head(ss) \o Flatten(Tail(ss))

(***************************************************************************)
(* os.path.realpath on a filesystem without symbolic links.                *)
(***************************************************************************)
Cwd == << <<"d">> >>      \* components of the working directory, /d

\* components of a path, split at "/" (empty components included)
RECURSIVE Split(_)
Split(p) ==
    LET i == IndexOfAny(p, {"/"}, 1) IN
    IF i = 0 THEN <<p>>
    ELSE <<SubSeq(p, 1, i - 1)>> \o Split(SubSeq(p, i + 1, Len(p)))

\* walk the components: skip "" and ".", pop on ".."
RECURSIVE JoinReal(_, _)
JoinReal(acc, comps) ==
    IF comps = <<>> THEN acc
    ELSE LET c == Head(comps) IN
         IF c = <<>> \/ c = <<".">> THEN JoinReal(acc, Tail(comps))
         ELSE IF c = <<".", ".">>
              THEN JoinReal(IF acc = <<>> THEN acc
                            ELSE SubSeq(acc, 1, Len(acc) - 1), Tail(comps))
         ELSE JoinReal(Append(acc, c), Tail(comps))

RECURSIVE JoinPath(_)
JoinPath(comps) ==
    IF comps = <<>> THEN <<>> ELSE <<"/">> \o Head(comps) \o JoinPath(Tail(comps))

RealComponents(p) ==
    JoinReal(IF p # <<>> /\ p[1] = "/" THEN <<>> ELSE Cwd, Split(p))

realpath(p) ==
    LET comps == RealComponents(p) IN
    IF comps = <<>> THEN <<"/">> ELSE JoinPath(comps)

(***************************************************************************)
(* string.Formatter().parse: the list of (literal_text, field_name), or a  *)
(* ValueError.  The alphabet has no ':', '!' or '[', so a field is its     *)
(* name.                                                                   *)
(***************************************************************************)
ValueError == [ok |-> FALSE, segs |-> <<>>]

Segment(lit, name) == [before_field |-> lit, field_name |-> name]

RECURSIVE MarkupIterator(_, _)
MarkupIterator(s, start) ==
    IF start > Len(s) THEN [ok |-> TRUE, segs |-> <<>>]
    ELSE
      LET b == IndexOfAny(s, {"{", "}"}, start) IN
      IF b = 0
      THEN [ok |-> TRUE, segs |-> <<Segment(SubSeq(s, start, Len(s)), NoField)>>]
      ELSE
        LET c == s[b]
            at_end == (b = Len(s))
        IN
        IF c = "}" /\ (at_end \/ s[b + 1] # "}") THEN ValueError   \* Single '}'
        ELSE IF at_end /\ c = "{" THEN ValueError                  \* Single '{'
        ELSE IF s[b + 1] = c
        THEN \* escaped brace: literal text including one brace, no field
             LET rest == MarkupIterator(s, b + 2) IN
             IF rest.ok
             THEN [ok |-> TRUE,
                   segs |-> <<Segment(SubSeq(s, start, b), NoField)>> \o rest.segs]
             ELSE ValueError
        ELSE \* a field follows: its name ends at the next '}'
             LET f == IndexOfAny(s, {"{", "}"}, b + 1) IN
             IF f = 0 THEN ValueError                 \* expected '}'
             ELSE IF s[f] = "{" THEN ValueError       \* unexpected '{'
             ELSE LET rest == MarkupIterator(s, f + 1) IN
                  IF rest.ok
                  THEN [ok |-> TRUE,
                        segs |-> <<Segment(SubSeq(s, start, b - 1),
                                           SubSeq(s, b + 1, f - 1))>> \o rest.segs]
                  ELSE ValueError

parsed_value(v) == MarkupIterator(realpath(v), 1)

(***************************************************************************)
(* The loop that assembles keys, glob_pattern and regex_pattern.           *)
(***************************************************************************)
\* re.escape: a backslash before each special character
ReSpecial == {"(", ")", "[", "]", "{", "}", "?", "*", "+", "-", "|", "^", "$",
              BS, ".", "&", "~", "#", " "}

RECURSIVE ReEscape(_)
ReEscape(s) ==
    IF s = <<>> THEN <<>>
    ELSE (IF Head(s) \in ReSpecial THEN <<BS, Head(s)>> ELSE <<Head(s)>>)
         \o ReEscape(Tail(s))

NamedGroup(field_name) ==
    <<"(", "?", "P", "<">> \o field_name
        \o <<">", "[", "^", BS, "W", "_", "]", "+", ")">>

LazyAny == <<".", "*", "?">>

BackRef(key_group_number) == <<BS>> \o IntToStr(key_group_number)

RECURSIVE AssemblePatterns(_, _)
AssemblePatterns(segs, acc) ==
    IF segs = <<>> THEN acc
    ELSE
      LET seg == Head(segs)
          g == acc.glob_pattern \o seg.before_field
          r == acc.regex_pattern \o ReEscape(seg.before_field)
      IN
      IF seg.field_name = NoField
      THEN AssemblePatterns(Tail(segs),
             [keys |-> acc.keys, glob_pattern |-> g, regex_pattern |-> r])
      ELSE IF seg.field_name = <<>>
      THEN AssemblePatterns(Tail(segs),
             [keys |-> acc.keys, glob_pattern |-> g \o <<"*">>,
              regex_pattern |-> r \o LazyAny])
      ELSE IF seg.field_name \in Range(acc.keys)
      THEN AssemblePatterns(Tail(segs),
             [keys |-> acc.keys, glob_pattern |-> g \o <<"*">>,
              regex_pattern |-> r \o BackRef(IndexOf(acc.keys, seg.field_name, 1))])
      ELSE AssemblePatterns(Tail(segs),
             [keys |-> Append(acc.keys, seg.field_name),
              glob_pattern |-> g \o <<"*">>,
              regex_pattern |-> r \o NamedGroup(seg.field_name)])

Assemble(segs) ==
    AssemblePatterns(segs, [keys |-> <<>>, glob_pattern |-> <<>>,
                            regex_pattern |-> <<>>])

\* all(re.match(r'\w', key) for key in keys): re.match looks at the start
KeyNamesPass(ks) == \A i \in 1..Len(ks) : IsWord(ks[i][1])

(***************************************************************************)
(* re: parsing of the regex pattern that the loop assembled.  The pattern  *)
(* holds escaped literals, named groups, lazy wildcards and numeric        *)
(* escapes (a backslash before the group number never yields \0).         *)
(***************************************************************************)
ReError == [ok |-> FALSE, toks |-> <<>>]

\* str.isidentifier
IsIdentifier(name) ==
    /\ name # <<>>
    /\ name[1] \in Letters \cup {"_"}
    /\ \A i \in 1..Len(name) : IsWord(name[i])

\* chr(code) for the characters of the alphabet; any other character is "chr"
Chr(code) ==
    CASE code = 46 -> "." [] code = 47 -> "/" [] code = 49 -> "1"
      [] code = 95 -> "_" [] code = 97 -> "a" [] code = 98 -> "b"
      [] code = 100 -> "d" [] code = 123 -> "{" [] code = 125 -> "}"
      [] OTHER -> "chr"

PushTok(tok, rest) ==
    IF rest.ok THEN [ok |-> TRUE, toks |-> <<tok>> \o rest.toks] ELSE ReError

\* groups: number of groups opened so far
RECURSIVE sre_parse(_, _, _)
sre_parse(rx, i, groups) ==
    IF i > Len(rx) THEN [ok |-> TRUE, toks |-> <<>>]
    ELSE IF rx[i] = BS
    THEN
      LET e == rx[i + 1]
          two == i + 2 <= Len(rx) /\ rx[i + 2] \in Digits
          three == /\ two
                   /\ e \in OctDigits /\ rx[i + 2] \in OctDigits
                   /\ i + 3 <= Len(rx) /\ rx[i + 3] \in OctDigits
      IN
      IF e \notin Digits
      THEN PushTok([t |-> "lit", c |-> e, n |-> 0], sre_parse(rx, i + 2, groups))
      ELSE IF three
      THEN \* octal escape
           LET code == 64 * DigitVal(e) + 8 * DigitVal(rx[i + 2])
                         + DigitVal(rx[i + 3])
           IN IF code > 255 THEN ReError
              ELSE PushTok([t |-> "lit", c |-> Chr(code), n |-> 0],
                           sre_parse(rx, i + 4, groups))
      ELSE \* decimal group reference
           LET group == IF two THEN 10 * DigitVal(e) + DigitVal(rx[i + 2])
                        ELSE DigitVal(e)
               next == IF two THEN i + 3 ELSE i + 2
           IN IF group <= groups
              THEN PushTok([t |-> "ref", c |-> "", n |-> group],
                           sre_parse(rx, next, groups))
              ELSE ReError                    \* invalid group reference
    ELSE IF rx[i] = "("
    THEN \* (?P<name>[^\W_]+)
      LET gt == IndexOfAny(rx, {">"}, i)
          name == SubSeq(rx, i + 4, gt - 1)
      IN IF ~IsIdentifier(name) THEN ReError  \* bad character in group name
         ELSE PushTok([t |-> "group", c |-> "", n |-> groups + 1],
                      sre_parse(rx, gt + 9, groups + 1))
    ELSE IF rx[i] = "."
    THEN PushTok([t |-> "any", c |-> "", n |-> 0], sre_parse(rx, i + 3, groups))
    ELSE PushTok([t |-> "lit", c |-> rx[i], n |-> 0], sre_parse(rx, i + 1, groups))

re_compile(rx) == sre_parse(rx, 1, 0)

(***************************************************************************)
(* re.match: backtracking match anchored at the start of the string only.  *)
(* A match is [end, groups]: group(0) is the first `end` characters.       *)
(***************************************************************************)
NoMatch == [end |-> -1, groups |-> <<>>]

IsMatch(m) == m.end >= 0

\* length of the run of [^\W_] characters of s that starts at pos
RECURSIVE AlnumRun(_, _)
AlnumRun(s, pos) ==
    IF pos <= Len(s) /\ IsAlnum(s[pos]) THEN 1 + AlnumRun(s, pos + 1) ELSE 0

RECURSIVE sre_match(_, _, _, _, _)
RECURSIVE MatchGreedy(_, _, _, _, _, _)
RECURSIVE MatchLazy(_, _, _, _, _, _)

sre_match(toks, ti, s, pos, groups) ==
    IF ti > Len(toks) THEN [end |-> pos - 1, groups |-> groups]
    ELSE
      LET tk == toks[ti] IN
      CASE tk.t = "lit" ->
             IF pos <= Len(s) /\ s[pos] = tk.c
             THEN sre_match(toks, ti + 1, s, pos + 1, groups) ELSE NoMatch
        [] tk.t = "ref" ->
             LET g == groups[tk.n] IN
             IF pos + Len(g) - 1 <= Len(s) /\ SubSeq(s, pos, pos + Len(g) - 1) = g
             THEN sre_match(toks, ti + 1, s, pos + Len(g), groups) ELSE NoMatch
        [] tk.t = "group" -> MatchGreedy(toks, ti, s, pos, groups, AlnumRun(s, pos))
        [] tk.t = "any" -> MatchLazy(toks, ti, s, pos, groups, 0)

\* [^\W_]+ : the longest run first, at least one character
MatchGreedy(toks, ti, s, pos, groups, k) ==
    IF k < 1 THEN NoMatch
    ELSE LET r == sre_match(toks, ti + 1, s, pos + k,
                            Append(groups, SubSeq(s, pos, pos + k - 1)))
         IN IF IsMatch(r) THEN r ELSE MatchGreedy(toks, ti, s, pos, groups, k - 1)

\* .*? : the shortest run first
MatchLazy(toks, ti, s, pos, groups, k) ==
    IF pos + k - 1 > Len(s) THEN NoMatch
    ELSE LET r == sre_match(toks, ti + 1, s, pos + k, groups)
         IN IF IsMatch(r) THEN r ELSE MatchLazy(toks, ti, s, pos, groups, k + 1)

re_match(toks, s) == sre_match(toks, 1, s, 1, <<>>)

(***************************************************************************)
(* glob.glob over the filesystem: every existing path (file or directory)  *)
(* whose components match the components of the pattern.                   *)
(***************************************************************************)
PathComponents(p) ==
    IF p = <<"/">> THEN <<>> ELSE Split(SubSeq(p, 2, Len(p)))

\* what exists: the files and the directories above them
Entries(fileset) ==
    {<<>>, Cwd} \cup
    UNION {{SubSeq(c, 1, n) : n \in 0..Len(c)} :
             c \in {PathComponents(f) : f \in fileset}}

RECURSIVE fnmatch(_, _)
fnmatch(name, pat) ==
    IF pat = <<>> THEN name = <<>>
    ELSE IF Head(pat) = "*"
         THEN fnmatch(name, Tail(pat)) \/ (name # <<>> /\ fnmatch(Tail(name), pat))
    ELSE name # <<>> /\ Head(name) = Head(pat) /\ fnmatch(Tail(name), Tail(pat))

IsHidden(name) == name # <<>> /\ name[1] = "."

ComponentMatches(name, pat) ==
    /\ fnmatch(name, pat)
    /\ ("*" \in Range(pat) /\ IsHidden(name)) => IsHidden(pat)

glob(fileset, pattern) ==
    LET pcomps == PathComponents(pattern) IN
    {realpath(JoinPath(e)) : e \in
       {e \in Entries(fileset) :
          /\ Len(e) = Len(pcomps)
          /\ \A i \in 1..Len(e) : ComponentMatches(e[i], pcomps[i])}}

\* the orders in which a set can be listed
Orders(S) ==
    {o \in [1..Cardinality(S) -> S] : \A i, j \in DOMAIN o : i # j => o[i] # o[j]}

(***************************************************************************)
(* The dict built from (key, value) pairs in order: a repeated key keeps   *)
(* its place and takes the later value.                                    *)
(***************************************************************************)
KeyIndex(d, k) == IndexOf([i \in 1..Len(d) |-> d[i][1]], k, 1)

RECURSIVE DictFrom(_, _)
DictFrom(pairs, d) ==
    IF pairs = <<>> THEN d
    ELSE LET kv == Head(pairs)
             at == KeyIndex(d, kv[1])
         IN DictFrom(Tail(pairs),
                     IF at = 0 THEN Append(d, kv) ELSE [d EXCEPT ![at] = kv])

(***************************************************************************)
(* RasterPattern.convert                                                   *)
(***************************************************************************)
\* the inputs: templates made of at most MaxPieces pieces, and filesystems
\* of at most MaxFiles files
PlaceholderPieces ==
    {<<"{", "}">>, <<"{", "a", "}">>, <<"{", "a", "_", "b", "}">>,
     <<"{", ".", "a", "}">>}
LiteralPieces == {<<"1">>, <<"_">>, <<"/">>, <<"{">>}
Pieces == PlaceholderPieces \cup LiteralPieces

Templates ==
    {Flatten(ps) : ps \in UNION {[1..n -> Pieces] : n \in 0..MaxPieces}}

FilePool ==
    {<<"/", "d", "/", "a", "a", "1">>, <<"/", "d", "/", "a", "_", "a">>,
     <<"/", "d", "/", "a", "_", "1">>, <<"/", "d", "/", "_", "1">>}

Filesystems == {S \in SUBSET FilePool : Cardinality(S) <= MaxFiles}

ConvertIdle ==
    /\ cpc = "idle" /\ value = <<>> /\ fs = {} /\ ckeys = <<>>
    /\ glob_pattern = <<>> /\ regex_pattern = <<>> /\ globbed = FALSE
    /\ candidates = <<>> /\ matched_candidates = <<>> /\ files = <<>>
    /\ message = ""

IngestIdle ==
    /\ pc = "idle" /\ raster_pattern = <<>> /\ skip_metadata = FALSE
    /\ rgb_key = None /\ skip_existing = FALSE /\ ignore_older_than = None
    /\ keys = <<>> /\ raster_files = <<>> /\ is_file = FALSE
    /\ key_names = None /\ datasets = {} /\ store0 = None /\ created = <<>>
    /\ existing = None /\ cutoff_time = None /\ mtime = <<>>
    /\ connected = FALSE /\ connects = 0 /\ inserts = <<>> /\ posts = <<>>
    /\ output = <<>>

InitConvert ==
    /\ cpc = "start"
    /\ value \in Templates
    /\ fs \in Filesystems
    /\ ckeys = <<>> /\ glob_pattern = <<>> /\ regex_pattern = <<>>
    /\ globbed = FALSE /\ candidates = <<>> /\ matched_candidates = <<>>
    /\ files = <<>> /\ message = ""
    /\ IngestIdle

\* self.fail(text): raises click.BadParameter
Fail(text) ==
    /\ cpc' = "failed"
    /\ message' = text

Assembled ==
    LET a == Assemble(parsed_value(value).segs) IN
    /\ ckeys' = a.keys
    /\ glob_pattern' = a.glob_pattern
    /\ regex_pattern' = a.regex_pattern

\* string.Formatter().parse raised ValueError
InvalidPattern ==
    /\ cpc = "start"
    /\ ~parsed_value(value).ok
    /\ Fail("Invalid pattern")
    /\ UNCHANGED <<value, fs, ckeys, glob_pattern, regex_pattern, globbed,
                   candidates, matched_candidates, files>>
    /\ UNCHANGED ivars

NoPlaceholder ==
    /\ cpc = "start"
    /\ parsed_value(value).ok
    /\ Assembled
    /\ ckeys' = <<>>
    /\ Fail("Pattern must contain at least one placeholder")
    /\ UNCHANGED <<value, fs, globbed, candidates, matched_candidates, files>>
    /\ UNCHANGED ivars

KeyNamesRejected ==
    /\ cpc = "start"
    /\ parsed_value(value).ok
    /\ Assembled
    /\ ckeys' # <<>>
    /\ ~KeyNamesPass(ckeys')
    /\ Fail("Key names must be alphanumeric")
    /\ UNCHANGED <<value, fs, globbed, candidates, matched_candidates, files>>
    /\ UNCHANGED ivars

Compile ==
    /\ cpc = "start"
    /\ parsed_value(value).ok
    /\ Assembled
    /\ ckeys' # <<>>
    /\ KeyNamesPass(ckeys')
    /\ cpc' = "glob"
    /\ UNCHANGED <<value, fs, globbed, candidates, matched_candidates, files,
                   message>>
    /\ UNCHANGED ivars

\* candidates = map(os.path.realpath, glob.glob(glob_pattern))
GlobCandidates ==
    /\ cpc = "glob"
    /\ \E o \in Orders(glob(fs, glob_pattern)) : candidates' = o
    /\ globbed' = TRUE
    /\ cpc' = "match"
    /\ UNCHANGED <<value, fs, ckeys, glob_pattern, regex_pattern,
                   matched_candidates, files, message>>
    /\ UNCHANGED ivars

\* matched_candidates = [re.match(regex_pattern, c) for c in candidates]
MatchCandidates ==
    /\ cpc = "match"
    /\ candidates # <<>> => re_compile(regex_pattern).ok
    /\ matched_candidates' =
         [i \in 1..Len(candidates) |->
            re_match(re_compile(regex_pattern).toks, candidates[i])]
    /\ cpc' = "matched"
    /\ UNCHANGED <<value, fs, ckeys, glob_pattern, regex_pattern, globbed,
                   candidates, files, message>>
    /\ UNCHANGED ivars

\* the first re.match raises re.error: the pattern does not compile
MatchRaises ==
    /\ cpc = "match"
    /\ candidates # <<>>
    /\ ~re_compile(regex_pattern).ok
    /\ cpc' = "raised"
    /\ message' = "re.error"
    /\ UNCHANGED <<value, fs, ckeys, glob_pattern, regex_pattern, globbed,
                   candidates, matched_candidates, files>>
    /\ UNCHANGED ivars

AnyMatched == \E i \in 1..Len(matched_candidates) : IsMatch(matched_candidates[i])

Matches == SelectSeq(matched_candidates, IsMatch)

\* key_combinations
key_combinations == [i \in 1..Len(Matches) |-> Matches[i].groups]

HasFewerThanDistinct(combos) == Len(combos) < Cardinality(Range(combos))

\* len(key_combinations) != len(set(key_combinations))
HasDuplicates(combos) == Len(combos) # Cardinality(Range(combos))

\* match.group(0) of the i-th candidate
Group0(i) == SubSeq(candidates[i], 1, matched_candidates[i].end)

MatchedIndices ==
    SelectSeq([i \in 1..Len(candidates) |-> i],
              LAMBDA i : IsMatch(matched_candidates[i]))

NoFilesTwoMessages ==
    /\ cpc = "matched"
    /\ ~AnyMatched
    /\ Fail(IF candidates = <<>> THEN "Given pattern matches no files"
            ELSE "Given pattern does not match the files found")
    /\ UNCHANGED <<value, fs, ckeys, glob_pattern, regex_pattern, globbed,
                   candidates, matched_candidates, files>>
    /\ UNCHANGED ivars

\* if not any(matched_candidates): self.fail(...)
NoFiles ==
    /\ cpc = "matched"
    /\ ~AnyMatched
    /\ Fail("Given pattern matches no files")
    /\ UNCHANGED <<value, fs, ckeys, glob_pattern, regex_pattern, globbed,
                   candidates, matched_candidates, files>>
    /\ UNCHANGED ivars

DuplicateKeys ==
    /\ cpc = "matched"
    /\ AnyMatched
    /\ HasDuplicates(key_combinations)
    /\ Fail("Pattern leads to duplicate keys")
    /\ UNCHANGED <<value, fs, ckeys, glob_pattern, regex_pattern, globbed,
                   candidates, matched_candidates, files>>
    /\ UNCHANGED ivars

Return ==
    /\ cpc = "matched"
    /\ AnyMatched
    /\ ~HasDuplicates(key_combinations)
    /\ files' = DictFrom([j \in 1..Len(MatchedIndices) |->
                            <<matched_candidates[MatchedIndices[j]].groups,
                              Group0(MatchedIndices[j])>>], <<>>)
    /\ cpc' = "returned"
    /\ UNCHANGED <<value, fs, ckeys, glob_pattern, regex_pattern, globbed,
                   candidates, matched_candidates, message>>
    /\ UNCHANGED ivars

NextConvert ==
    \/ InvalidPattern
    \/ NoPlaceholder
    \/ KeyNamesRejected
    \/ Compile
    \/ GlobCandidates
    \/ MatchCandidates
    \/ MatchRaises
    \/ NoFiles
    \/ DuplicateKeys
    \/ Return

SpecConvert == InitConvert /\ [][NextConvert]_vars

(***************************************************************************)
(* ingest                                                                  *)
(***************************************************************************)
\* the inputs: a catalog as convert returns it (at least one entry, key
\* tuples pairwise distinct and as long as the key list), the options, and
\* the store as it is found
KeyNamePool == {"name", "band"}
ValuePool == {"a", "b"}
PathPool == <<"/d/f1", "/d/f2", "/d/f3", "/d/f4">>
TimePool == {1, 2}          \* modification times
NowPool == {2, 3}           \* datetime.now()
DeltaPool == {1}            \* --ignore-older-than

KeyLists ==
    {ks \in UNION {[1..n -> KeyNamePool] : n \in 1..Cardinality(KeyNamePool)} :
        \A i, j \in DOMAIN ks : i # j => ks[i] # ks[j]}

KeyTuples(n) == [1..n -> ValuePool]

Catalogs(ks) ==
    {[i \in 1..Len(ts) |-> <<ts[i], PathPool[i]>>] :
       ts \in {ts \in UNION {[1..n -> KeyTuples(Len(ks))] : n \in 1..MaxEntries} :
                 \A i, j \in DOMAIN ts : i # j => ts[i] # ts[j]}}

StoredDatasets(ks) ==
    {{<<t, "/d/old">> : t \in T} :
       T \in {T \in SUBSET KeyTuples(Len(ks)) : Cardinality(T) <= MaxEntries}}

push_to_last_dropped(seq, index) ==
    SubSeq(seq, 1, index - 1) \o SubSeq(seq, index + 1, Len(seq))

\* (*seq[:index], *seq[index + 1:], seq[index]), index counted from 1
push_to_last(seq, index) ==
    SubSeq(seq, 1, index - 1) \o SubSeq(seq, index + 1, Len(seq)) \o <<seq[index]>>

Init ==
    /\ ConvertIdle
    /\ pc = "start"
    /\ \E ks \in KeyLists : \E rf \in Catalogs(ks) :
         /\ raster_pattern = <<ks, rf>>
         /\ keys = ks
         /\ raster_files = rf
    /\ skip_metadata \in BOOLEAN
    /\ rgb_key \in {None} \cup {Some(k) : k \in KeyNamePool}
    /\ skip_existing \in BOOLEAN
    /\ ignore_older_than \in {None} \cup {Some(d) : d \in DeltaPool}
    /\ \/ /\ is_file = FALSE
          /\ key_names = None
          /\ datasets = {}
       \/ /\ is_file = TRUE
          /\ key_names \in KeyLists
          /\ datasets \in StoredDatasets(key_names)
    /\ store0 = [is_file |-> is_file, key_names |-> key_names]
    /\ created = <<>>
    /\ existing = None
    /\ cutoff_time = None
    /\ mtime = <<>>
    /\ connected = FALSE
    /\ connects = 0
    /\ inserts = <<>>
    /\ posts = <<>>
    /\ output = <<>>

\* raise click.BadParameter("RGB key not found in raster pattern")
RgbKeyNotFound ==
    /\ pc = "start"
    /\ rgb_key # None
    /\ Get(rgb_key) \notin Range(keys)
    /\ pc' = "raised"
    /\ UNCHANGED <<raster_pattern, skip_metadata, rgb_key, skip_existing,
                   ignore_older_than, keys, raster_files, is_file, key_names,
                   datasets, store0, created, existing, cutoff_time, mtime,
                   connected, connects, inserts, posts, output>>
    /\ UNCHANGED cvars

\* re-order keys
ReorderKeys ==
    /\ pc = "start"
    /\ rgb_key # None
    /\ Get(rgb_key) \in Range(keys)
    /\ LET rgb_idx == IndexOf(keys, Get(rgb_key), 1) IN
       /\ keys' = push_to_last(keys, rgb_idx)
       /\ raster_files' =
            DictFrom([i \in 1..Len(raster_files) |->
                        <<push_to_last(raster_files[i][1], rgb_idx),
                          raster_files[i][2]>>], <<>>)
    /\ pc' = "driver"
    /\ UNCHANGED <<raster_pattern, skip_metadata, rgb_key, skip_existing,
                   ignore_older_than, is_file, key_names, datasets, store0,
                   created, existing, cutoff_time, mtime, connected, connects,
                   inserts, posts, output>>
    /\ UNCHANGED cvars

NoRgbKey ==
    /\ pc = "start"
    /\ rgb_key = None
    /\ pc' = "driver"
    /\ UNCHANGED <<raster_pattern, skip_metadata, rgb_key, skip_existing,
                   ignore_older_than, keys, raster_files, is_file, key_names,
                   datasets, store0, created, existing, cutoff_time, mtime,
                   connected, connects, inserts, posts, output>>
    /\ UNCHANGED cvars

\* if not output_file.is_file(): driver.create(keys)
CreateStore ==
    /\ pc = "driver"
    /\ ~is_file
    /\ created' = Append(created, keys)
    /\ key_names' = keys
    /\ is_file' = TRUE
    /\ datasets' = {}
    /\ pc' = "skip_existing"
    /\ UNCHANGED <<raster_pattern, skip_metadata, rgb_key, skip_existing,
                   ignore_older_than, keys, raster_files, store0, existing,
                   cutoff_time, mtime, connected, connects, inserts, posts,
                   output>>
    /\ UNCHANGED cvars

StoreExists ==
    /\ pc = "driver"
    /\ is_file
    /\ pc' = "skip_existing"
    /\ UNCHANGED <<raster_pattern, skip_metadata, rgb_key, skip_existing,
                   ignore_older_than, keys, raster_files, is_file, key_names,
                   datasets, store0, created, existing, cutoff_time, mtime,
                   connected, connects, inserts, posts, output>>
    /\ UNCHANGED cvars

\* the keys of a store's datasets
StoredKeys(ds) == {d[1] : d \in ds}

\* if skip_existing: drop the keys that driver.get_datasets() holds
SkipExisting ==
    /\ pc = "skip_existing"
    /\ skip_existing
    /\ existing' = Some(datasets)
    /\ raster_files' =
         SelectSeq(raster_files, LAMBDA e : e[1] \notin StoredKeys(Get(existing')))
    /\ pc' = "check_keys"
    /\ UNCHANGED <<raster_pattern, skip_metadata, rgb_key, skip_existing,
                   ignore_older_than, keys, is_file, key_names, datasets,
                   store0, created, cutoff_time, mtime, connected, connects,
                   inserts, posts, output>>
    /\ UNCHANGED cvars

KeepExisting ==
    /\ pc = "skip_existing"
    /\ ~skip_existing
    /\ pc' = "check_keys"
    /\ UNCHANGED <<raster_pattern, skip_metadata, rgb_key, skip_existing,
                   ignore_older_than, keys, raster_files, is_file, key_names,
                   datasets, store0, created, existing, cutoff_time, mtime,
                   connected, connects, inserts, posts, output>>
    /\ UNCHANGED cvars

\* tuple(keys) != driver.key_names: the message is echoed and click.Abort()
\* is constructed but not raised, so execution continues
IncompatibleKeys ==
    /\ pc = "check_keys"
    /\ keys # key_names
    /\ output' = Append(output, "incompatible key names")
    /\ pc' = "ignore_older"
    /\ UNCHANGED <<raster_pattern, skip_metadata, rgb_key, skip_existing,
                   ignore_older_than, keys, raster_files, is_file, key_names,
                   datasets, store0, created, existing, cutoff_time, mtime,
                   connected, connects, inserts, posts>>
    /\ UNCHANGED cvars

CompatibleKeys ==
    /\ pc = "check_keys"
    /\ keys = key_names
    /\ pc' = "ignore_older"
    /\ UNCHANGED <<raster_pattern, skip_metadata, rgb_key, skip_existing,
                   ignore_older_than, keys, raster_files, is_file, key_names,
                   datasets, store0, created, existing, cutoff_time, mtime,
                   connected, connects, inserts, posts, output>>
    /\ UNCHANGED cvars

\* datetime.fromtimestamp(Path(path).stat().st_mtime) > cutoff_time
NewerOrSame(t, cutoff) == t >= cutoff
NewerThan(t, cutoff) == t > cutoff

\* if ignore_older_than is not None: keep the files modified after the cutoff
IgnoreOlder ==
    /\ pc = "ignore_older"
    /\ ignore_older_than # None
    /\ \E now \in NowPool : cutoff_time' = Some(now - Get(ignore_older_than))
    /\ mtime' \in [{e[2] : e \in Range(raster_files)} -> TimePool]
    /\ raster_files' =
         SelectSeq(raster_files,
                   LAMBDA e : NewerThan(mtime'[e[2]], Get(cutoff_time')))
    /\ pc' = "connect"
    /\ UNCHANGED <<raster_pattern, skip_metadata, rgb_key, skip_existing,
                   ignore_older_than, keys, is_file, key_names, datasets,
                   store0, created, existing, connected, connects, inserts,
                   posts, output>>
    /\ UNCHANGED cvars

KeepOlder ==
    /\ pc = "ignore_older"
    /\ ignore_older_than = None
    /\ pc' = "connect"
    /\ UNCHANGED <<raster_pattern, skip_metadata, rgb_key, skip_existing,
                   ignore_older_than, keys, raster_files, is_file, key_names,
                   datasets, store0, created, existing, cutoff_time, mtime,
                   connected, connects, inserts, posts, output>>
    /\ UNCHANGED cvars

\* with driver.connect():
Connect ==
    /\ pc = "connect"
    /\ connected' = TRUE
    /\ connects' = connects + 1
    /\ pc' = "insert"
    /\ UNCHANGED <<raster_pattern, skip_metadata, rgb_key, skip_existing,
                   ignore_older_than, keys, raster_files, is_file, key_names,
                   datasets, store0, created, existing, cutoff_time, mtime,
                   inserts, posts, output>>
    /\ UNCHANGED cvars

InsertCallDefault(entry) ==
    [key |-> entry[1], filepath |-> entry[2], skip_metadata |-> FALSE,
     connected |-> connected]

InsertCall(entry) ==
    [key |-> entry[1], filepath |-> entry[2], skip_metadata |-> skip_metadata,
     connected |-> connected]

\* driver.insert(key, filepath, skip_metadata=skip_metadata), next entry
Insert ==
    /\ pc = "insert"
    /\ Len(inserts) < Len(raster_files)
    /\ LET entry == raster_files[Len(inserts) + 1] IN
       /\ inserts' = Append(inserts, InsertCall(entry))
       /\ datasets' = {d \in datasets : d[1] # entry[1]} \cup {entry}
    /\ UNCHANGED <<pc, raster_pattern, skip_metadata, rgb_key, skip_existing,
                   ignore_older_than, keys, raster_files, is_file, key_names,
                   store0, created, existing, cutoff_time, mtime, connected,
                   connects, posts, output>>
    /\ UNCHANGED cvars

\* driver.insert raises: the scope is left and the exception propagates
InsertRaises ==
    /\ pc = "insert"
    /\ Len(inserts) < Len(raster_files)
    /\ inserts' = Append(inserts, InsertCall(raster_files[Len(inserts) + 1]))
    /\ connected' = FALSE
    /\ pc' = "raised"
    /\ UNCHANGED <<raster_pattern, skip_metadata, rgb_key, skip_existing,
                   ignore_older_than, keys, raster_files, is_file, key_names,
                   datasets, store0, created, existing, cutoff_time, mtime,
                   connects, posts, output>>
    /\ UNCHANGED cvars

\* the loop is over: the connection scope is left
Disconnect ==
    /\ pc = "insert"
    /\ Len(inserts) = Len(raster_files)
    /\ connected' = FALSE
    /\ pc' = "clear_cache"
    /\ UNCHANGED <<raster_pattern, skip_metadata, rgb_key, skip_existing,
                   ignore_older_than, keys, raster_files, is_file, key_names,
                   datasets, store0, created, existing, cutoff_time, mtime,
                   connects, inserts, posts, output>>
    /\ UNCHANGED cvars

PostCall == [url |-> "http://localhost:5000/clear_cache", connected |-> connected,
             inserted |-> Len(inserts)]

\* requests.post(...) and raise_for_status() succeed
ClearCache ==
    /\ pc = "clear_cache"
    /\ posts' = Append(posts, PostCall)
    /\ pc' = "done"
    /\ UNCHANGED <<raster_pattern, skip_metadata, rgb_key, skip_existing,
                   ignore_older_than, keys, raster_files, is_file, key_names,
                   datasets, store0, created, existing, cutoff_time, mtime,
                   connected, connects, inserts, output>>
    /\ UNCHANGED cvars

ClearCacheUncaught ==
    /\ pc = "clear_cache"
    /\ posts' = Append(posts, PostCall)
    /\ pc' = "raised"
    /\ UNCHANGED <<raster_pattern, skip_metadata, rgb_key, skip_existing,
                   ignore_older_than, keys, raster_files, is_file, key_names,
                   datasets, store0, created, existing, cutoff_time, mtime,
                   connected, connects, inserts, output>>
    /\ UNCHANGED cvars

\* requests.post(...) or raise_for_status() raises a RequestException:
\* except requests.exceptions.RequestException as e: print(...)
ClearCacheFails ==
    /\ pc = "clear_cache"
    /\ posts' = Append(posts, PostCall)
    /\ output' = Append(output, "Failed to clear cache")
    /\ pc' = "done"
    /\ UNCHANGED <<raster_pattern, skip_metadata, rgb_key, skip_existing,
                   ignore_older_than, keys, raster_files, is_file, key_names,
                   datasets, store0, created, existing, cutoff_time, mtime,
                   connected, connects, inserts>>
    /\ UNCHANGED cvars

Next ==
    \/ RgbKeyNotFound
    \/ ReorderKeys
    \/ NoRgbKey
    \/ CreateStore
    \/ StoreExists
    \/ SkipExisting
    \/ KeepExisting
    \/ IncompatibleKeys
    \/ CompatibleKeys
    \/ IgnoreOlder
    \/ KeepOlder
    \/ Connect
    \/ Insert
    \/ InsertRaises
    \/ Disconnect
    \/ ClearCache
    \/ ClearCacheFails

Spec == Init /\ [][Next]_vars

(***************************************************************************)
(* Properties of ingest (specification Spec).                              *)
(***************************************************************************)
keys0 == raster_pattern[1]
raster_files0 == raster_pattern[2]

\* new is old with the element at index i taken out and put last
MovedLast(new, old, i) ==
    /\ Len(new) = Len(old)
    /\ \A m \in 1..Len(old) :
         new[m] = IF m < i THEN old[m]
                  ELSE IF m < Len(old) THEN old[m + 1] ELSE old[i]

\* the catalog after the optional rgb-key reordering
ReorderedKeys ==
    IF rgb_key = None THEN keys0
    ELSE push_to_last(keys0, IndexOf(keys0, Get(rgb_key), 1))

Reordered ==
    IF rgb_key = None THEN raster_files0
    ELSE [j \in 1..Len(raster_files0) |->
            <<push_to_last(raster_files0[j][1], IndexOf(keys0, Get(rgb_key), 1)),
              raster_files0[j][2]>>]

\* C1: when the store already exists and the (reordered) key list differs
\* from the store's key names, no driver.insert call is made.
C1_NoInsertIntoIncompatibleStore ==
    (store0.is_file /\ pc # "start" /\ keys # store0.key_names) => inserts = <<>>

\* C6: reordering with an rgb-key at index i yields the key list with that
\* key moved last and, for every original entry, one entry with the tuple
\* permuted the same way and the same path; no two entries collapse; when
\* the key is already last nothing changes.
C6_ReorderMovesKeyLast ==
    (pc = "driver" /\ rgb_key # None) =>
       \E i \in 1..Len(keys0) :
          /\ keys0[i] = Get(rgb_key)
          /\ MovedLast(keys, keys0, i)
          /\ keys[Len(keys)] = Get(rgb_key)
          /\ Len(raster_files) = Len(raster_files0)
          /\ \A j \in 1..Len(raster_files0) :
                /\ MovedLast(raster_files[j][1], raster_files0[j][1], i)
                /\ raster_files[j][2] = raster_files0[j][2]
          /\ \A j, l \in 1..Len(raster_files) :
                j # l => raster_files[j][1] # raster_files[l][1]
          /\ i = Len(keys0) => (keys = keys0 /\ raster_files = raster_files0)

C6_Witness ==
    /\ pc = "driver" /\ rgb_key # None
    /\ Len(keys0) = 2 /\ keys0[1] = Get(rgb_key)
    /\ Len(raster_files0) = 2
    /\ raster_files0[1][1][1] # raster_files0[1][1][2]
    /\ raster_files # raster_files0

\* C7: the catalog handed to the insert loop holds exactly the reordered
\* entries whose key is absent from the snapshot (with skip-existing) and
\* whose file is strictly newer than the cutoff (with ignore-older-than),
\* in their order; the key list is the reordered key list.
Kept(e) ==
    /\ skip_existing => e[1] \notin {d[1] : d \in Get(existing)}
    /\ ignore_older_than # None =>
          (e[2] \in DOMAIN mtime /\ mtime[e[2]] > Get(cutoff_time))

C7_FilteredCatalog ==
    pc \in {"connect", "insert", "clear_cache", "done"} =>
       /\ keys = ReorderedKeys
       /\ raster_files = SelectSeq(Reordered, Kept)
       /\ (skip_existing /\ Get(existing) = {} /\ ignore_older_than = None)
            => raster_files = Reordered
       /\ (skip_existing /\ \A e \in Range(Reordered) :
                               \E d \in Get(existing) : d[1] = e[1])
            => raster_files = <<>>
       /\ (~skip_existing /\ ignore_older_than # None
             /\ \A e \in Range(Reordered) : mtime[e[2]] > Get(cutoff_time))
            => raster_files = Reordered
       /\ (~skip_existing /\ ignore_older_than # None
             /\ \A e \in Range(Reordered) : mtime[e[2]] <= Get(cutoff_time))
            => raster_files = <<>>

\* both filters act, each drops one entry for its own reason (a file as old
\* as the cutoff is dropped), after a reordering that changed the tuples
C7_Witness ==
    /\ pc = "insert"
    /\ skip_existing /\ ignore_older_than # None /\ rgb_key # None
    /\ Reordered # raster_files0
    /\ Len(Reordered) = 2 /\ raster_files = <<>>
    /\ \E e \in Range(Reordered) :
          /\ e[1] \notin {d[1] : d \in Get(existing)}
          /\ mtime[e[2]] = Get(cutoff_time)
    /\ \E e \in Range(Reordered) : e[1] \in {d[1] : d \in Get(existing)}

\* C8: against a store that does not exist yet, the store is created once
\* with the reordered key list before any insert, one connection scope is
\* opened, and the insert calls are, in order, one per entry of the final
\* catalog with its key, its path and the skip_metadata flag; when the loop
\* has ended normally every entry has been inserted exactly once.
C8_NewStoreInserts ==
    ~store0.is_file =>
       /\ pc \notin {"start", "driver", "raised"} => created = <<ReorderedKeys>>
       /\ inserts # <<>> => (created = <<ReorderedKeys>> /\ key_names = keys)
       /\ connects <= 1
       /\ Len(inserts) <= Len(raster_files)
       /\ \A j \in 1..Len(inserts) :
             inserts[j] = [key |-> raster_files[j][1],
                           filepath |-> raster_files[j][2],
                           skip_metadata |-> skip_metadata,
                           connected |-> TRUE]
       /\ pc \in {"clear_cache", "done"} =>
             (Len(inserts) = Len(raster_files) /\ connects = 1)

C8_Witness ==
    /\ ~store0.is_file /\ pc = "done"
    /\ Len(inserts) = 2 /\ skip_metadata /\ rgb_key # None
    /\ keys # keys0

\* C9: the cache notification is attempted at most once, only after every
\* insert and outside the connection scope, exactly once when the batch
\* completed; when it fails the failure is reported, ingest ends normally
\* and the inserted records are still in the store.
C9_NotificationIsolated ==
    /\ Len(posts) <= 1
    /\ \A j \in 1..Len(posts) :
          /\ ~posts[j].connected
          /\ posts[j].inserted = Len(raster_files)
          /\ Len(inserts) = Len(raster_files)
    /\ pc = "done" => Len(posts) = 1
    /\ posts # <<>> =>
          /\ pc = "done"
          /\ ~connected
          /\ \A j \in 1..Len(inserts) :
                <<inserts[j].key, inserts[j].filepath>> \in datasets
    /\ (pc = "raised" /\ inserts # <<>>) => posts = <<>>

C9_Witness ==
    /\ pc = "done"
    /\ "Failed to clear cache" \in Range(output)
    /\ Len(inserts) = 2

(***************************************************************************)
(* Properties of RasterPattern.convert (specification SpecConvert).        *)
(***************************************************************************)
segments == parsed_value(value).segs

IsNamed(seg) == seg.field_name # NoField /\ seg.field_name # <<>>

\* two matched candidates with the same key tuple
Collide ==
    \E i, j \in 1..Len(matched_candidates) :
       /\ i # j
       /\ IsMatch(matched_candidates[i]) /\ IsMatch(matched_candidates[j])
       /\ matched_candidates[i].groups = matched_candidates[j].groups

\* C2: when two distinct matched files yield the same key tuple, convert
\* fails with the duplicate-keys error and returns no catalog; a returned
\* catalog has pairwise distinct key tuples and one entry (its key tuple and
\* its group(0)) per matched file.
C2_DuplicateKeysRejected ==
    /\ Collide =>
          /\ cpc \in {"matched", "failed"}
          /\ files = <<>>
          /\ cpc = "failed" => message = "Pattern leads to duplicate keys"
    /\ cpc = "returned" =>
          /\ Len(files) = Len(Matches)
          /\ \A j, l \in 1..Len(files) : j # l => files[j][1] # files[l][1]
          /\ \A i \in 1..Len(candidates) :
                IsMatch(matched_candidates[i]) =>
                   \E j \in 1..Len(files) :
                      files[j] = <<matched_candidates[i].groups, Group0(i)>>

\* two files that differ only in what the unnamed placeholder matches
C2_Witness ==
    /\ cpc = "failed" /\ Collide
    /\ message = "Pattern leads to duplicate keys"
    /\ \E i \in 1..Len(segments) : segments[i].field_name = <<>>
    /\ \A i \in 1..Len(candidates) :
          /\ IsMatch(matched_candidates[i])
          /\ Group0(i) = candidates[i]

\* what it means for a path to fit a template: the literal text is found as
\* it stands, an unnamed placeholder stands for any text, and every named
\* placeholder stands for one non-empty alphanumeric text, the same at each
\* of its occurrences
RECURSIVE FitsFrom(_, _, _, _, _)
FitsFrom(segs, k, path, pos, bound) ==
    IF k > Len(segs) THEN pos = Len(path) + 1
    ELSE
      LET lit == segs[k].before_field
          name == segs[k].field_name
          p == pos + Len(lit)
      IN
      /\ p - 1 <= Len(path)
      /\ SubSeq(path, pos, p - 1) = lit
      /\ IF name = NoField THEN FitsFrom(segs, k + 1, path, p, bound)
         ELSE IF name = <<>>
         THEN \E n \in 0..(Len(path) - p + 1) :
                 FitsFrom(segs, k + 1, path, p + n, bound)
         ELSE IF \E b \in bound : b[1] = name
         THEN \E b \in bound :
                 /\ b[1] = name
                 /\ p + Len(b[2]) - 1 <= Len(path)
                 /\ SubSeq(path, p, p + Len(b[2]) - 1) = b[2]
                 /\ FitsFrom(segs, k + 1, path, p + Len(b[2]), bound)
         ELSE \E n \in 1..(Len(path) - p + 1) :
                 /\ \A q \in p..(p + n - 1) : IsAlnum(path[q])
                 /\ FitsFrom(segs, k + 1, path, p + n,
                             bound \cup {<<name, SubSeq(path, p, p + n - 1)>>})

Fits(segs, path) == FitsFrom(segs, 1, path, 1, {})

HasRepeatedName(segs) ==
    \E i, j \in 1..Len(segs) :
       i < j /\ IsNamed(segs[i]) /\ segs[i].field_name = segs[j].field_name

\* C3: for a template with a repeated named placeholder, whatever literal
\* text follows the repeated occurrence, matching succeeds on every
\* candidate that fits the template with all occurrences bound to the same
\* alphanumeric text and on no candidate whose occurrences differ, and the
\* key is recorded once.  "Occurrences differ" is read on the beginning of
\* the path (no beginning of it fits the template), so that the statement
\* does not depend on where the match ends, which is C10.
C3_RepeatedPlaceholderBindsSameValue ==
    (parsed_value(value).ok /\ HasRepeatedName(segments) /\ globbed) =>
       /\ \A i, j \in 1..Len(ckeys) : i # j => ckeys[i] # ckeys[j]
       /\ cpc # "raised"
       /\ cpc \in {"matched", "failed", "returned"} =>
             \A i \in 1..Len(candidates) :
                /\ Fits(segments, candidates[i]) => IsMatch(matched_candidates[i])
                /\ IsMatch(matched_candidates[i]) =>
                      \E n \in 0..Len(candidates[i]) :
                         Fits(segments, SubSeq(candidates[i], 1, n))

\* C4: a template with a named placeholder whose name has a character that
\* is not alphanumeric fails with 'Key names must be alphanumeric', before
\* the filesystem is enumerated and before any regex is applied.
HasNonAlnumName(segs) ==
    \E i \in 1..Len(segs) :
       /\ IsNamed(segs[i])
       /\ \E q \in 1..Len(segs[i].field_name) : ~IsAlnum(segs[i].field_name[q])

C4_NonAlnumKeyNameRejected ==
    (parsed_value(value).ok /\ HasNonAlnumName(segments)) =>
       /\ ~globbed
       /\ cpc \in {"start", "failed"}
       /\ cpc = "failed" => message = "Key names must be alphanumeric"

C10_StoredPathsAreCandidates ==
    cpc = "returned" =>
       \A j \in 1..Len(files) : files[j][2] \in Range(candidates)

====
